---- MODULE Spec2Model ----
(***************************************************************************)
(* A model of trailerfin's refresh engine (src/lib/scanner.py with         *)
(* src/lib/cache.py and src/lib/file_manager.py): the folder walk that     *)
(* builds the candidate list, the per-candidate worker                     *)
(* process_imdb_folder, the semaphore-bounded batches, the one-shot scan,  *)
(* the scheduler and the continuous monitor, and the command line of       *)
(* src/trailerfin.py that starts them.                                     *)
(***************************************************************************)
EXTENDS Integers, Sequences, FiniteSets, TLC

\* ------------------------------------------------------------------------
\* Bounds of the model
\* ------------------------------------------------------------------------
\* how many times the clock advances in one behaviour
MaxTicks == 1
\* how many one-shot scans (or monitor iterations) one behaviour runs
MaxCycles == 2
\* how many disturbances one behaviour suffers: I/O errors of a cache file,
\* a descriptor or a directory listing, and edits of a cache file from
\* outside
MaxFaults == 1
\* the largest worker count the user configures
MaxWorkers == 2

\* ------------------------------------------------------------------------
\* Program constants
\* ------------------------------------------------------------------------
\* check_expiring_links: "Less than 1 hour until expiration"
SweepWindow == 3600
\* config.py: SCHEDULE_DAYS, 1 unless the environment says otherwise
schedule_days == 1
\* run_scheduler: schedule.every(schedule_days).days, a day in seconds
DaySeconds == 86400
\* run_scheduler: time.sleep(60) between two calls of run_pending
PollSleep == 60
\* initialize_expiration_database: scan_and_refresh_trailers(..., worker_count=4, ...)
BootstrapWorkers == 4

\* the clock advances by half a sweep window at a time
TickLen == SweepWindow \div 2
\* int(time.time()) at the start of a behaviour
StartTime == 2 * SweepWindow

\* ------------------------------------------------------------------------
\* Optional values: Python's None and a present value
\* ------------------------------------------------------------------------
None == << >>
Some(x) == << x >>
IsSome(o) == Len(o) > 0
Val(o) == o[1]

\* ------------------------------------------------------------------------
\* The library tree.  Directories are numbered in the order os.walk yields
\* them (top-down).  Each path is a sequence of segments; a segment carries
\* the title id of a {imdb-tt...} marker that ends its name, if any.
\*   1  /lib
\*   2  /lib/Show {imdb-tt1}
\*   3  /lib/Show {imdb-tt1}/Season 01
\*   4  /lib/Show {imdb-tt1}/Season 02
\*   5  /lib/MovieA {imdb-tt2}
\*   6  /lib/MovieA 4K {imdb-tt2}
\*   7  /lib/Show {imdb-tt1}/Special {imdb-tt2}
\* ------------------------------------------------------------------------
TitleIds == {"tt1", "tt2"}
Dirs == 1..7
MovieDirs == {5, 6}
parent_dir == << 0, 1, 2, 2, 1, 1, 2 >>
\* the marker that ends the directory's own name (its final path segment)
SegMarker ==
    << None, Some("tt1"), None, None, Some("tt2"), Some("tt2"), Some("tt2") >>
\* re.match(r"(season|saison|s)\s*\d+", os.path.basename(root).lower())
IsSeasonName == << FALSE, FALSE, TRUE, TRUE, FALSE, FALSE, FALSE >>

\* A walk entry is a directory of the tree or the "backdrops" directory that
\* create_or_update_strm_file makes inside one.
Node(d) == [dir |-> d, bd |-> FALSE]
BdNode(d) == [dir |-> d, bd |-> TRUE]
\* os.walk order: a directory, its sub-directories, its backdrops directory
LayoutOrder ==
    << Node(1), Node(2), Node(3), Node(4), Node(7), BdNode(7), BdNode(2),
       Node(5), BdNode(5), Node(6), BdNode(6) >>

\* the markers of a path, outermost segment first
RECURSIVE PathMarkers(_)
PathMarkers(d) ==
    IF d = 0 THEN << >> ELSE PathMarkers(parent_dir[d]) \o SegMarker[d]

\* re.search(r"\{imdb-(tt\d+)\}", root): the first marker anywhere in the path
SearchMarker(n) ==
    LET ms == PathMarkers(n.dir)
    IN  IF Len(ms) = 0 THEN None ELSE Some(ms[1])

\* Mutant of EndsWithMarker: the marker may stand anywhere in the path
EndsWithMarker_anywhere(n, id) == TRUE

\* root.rstrip(os.sep).endswith("{imdb-<id>}")
EndsWithMarker(n, id) ==
    /\ ~n.bd
    /\ SegMarker[n.dir] = Some(id)

\* ------------------------------------------------------------------------
\* Resolved URLs.  Only the Expires query parameter matters to the engine:
\* it is absent, present with a text int() rejects, or present with a number.
\* ------------------------------------------------------------------------
Url(kind, val) == [kind |-> kind, val |-> val]
UrlNoExpires == Url("absent", 0)
UrlBadExpires == Url("bad", 0)

\* get_expiration_time: parse_qs(...).get("Expires"), int(expires_list[0]);
\* None when the parameter is absent or int() raises
get_expiration_time(url) ==
    IF url.kind = "num" THEN Some(url.val) ELSE None

\* Python truthiness of an optional int: "if new_expiration:"
Truthy(o) == IsSome(o) /\ Val(o) # 0

\* ------------------------------------------------------------------------
\* State
\* ------------------------------------------------------------------------
VARIABLES
    \* the invocation's options: --dir (the scan roots, in order), --use-nfo,
    \* --download, --workers, --limit (0 when none is given)
    scan_paths, use_nfo, download, worker_count, limit,
    \* the file system: which movie folders exist, the films each directory
    \* holds, the title id its .nfo gives, its backdrops/<video_filename>
    \* descriptor (the URL in it) and whether it holds trailer.mp4
    exists, videos, nfo, strm, trailer,
    \* the in-memory caches and the two JSON files in the working directory;
    \* a mapping is total here and maps an absent key to None
    expiration_times, trailer_expirations_json,
    ignored_titles, ignored_titles_json,
    \* int(time.time())
    now,
    \* where the driver (one-shot scan or monitor) stands
    pc,
    \* the batch: one record per candidate, and the semaphore's free permits
    tasks, semaphore,
    \* the monitor: last_known_folders, and the new folders still to process
    last_known_folders, new_folders,
    \* the scheduler: whether the schedule module could be imported, and
    \* when the job is due next (None before it is scheduled)
    sched,
    \* bookkeeping of the bounds
    ticks, cycles, faults

cfgvars == << scan_paths, use_nfo, download, worker_count, limit >>
fsvars == << exists, videos, nfo, strm, trailer >>
cachevars ==
    << expiration_times, trailer_expirations_json,
       ignored_titles, ignored_titles_json >>
monvars == << last_known_folders, new_folders >>
vars ==
    << scan_paths, use_nfo, download, worker_count, limit, exists, videos,
       nfo, strm, trailer, expiration_times, trailer_expirations_json, ignored_titles,
       ignored_titles_json, now, pc, tasks, semaphore, last_known_folders,
       new_folders, sched, ticks, cycles, faults >>

\* the file system as one value, for the operators that read it
FS ==
    [exists |-> exists, videos |-> videos, nfo |-> nfo, strm |-> strm,
     trailer |-> trailer]

EmptyExpirations == [d \in Dirs |-> None]
EmptyIgnored == [t \in TitleIds |-> None]

\* ------------------------------------------------------------------------
\* Reading the file system
\* ------------------------------------------------------------------------
NodeExists(F, n) ==
    /\ F.exists[n.dir]
    /\ n.bd => IsSome(F.strm[n.dir])

\* os.walk(path_to_scan): the existing directories under the root, top-down
InTree(d, r) ==
    \/ d = r
    \/ parent_dir[d] = r
    \/ (parent_dir[d] # 0 /\ parent_dir[parent_dir[d]] = r)

Walk(F, r) ==
    LET Keep(n) == NodeExists(F, n) /\ InTree(n.dir, r)
    IN  SelectSeq(LayoutOrder, Keep)

\* sum(1 for f in files if f.lower().endswith(video_extensions)): the films
\* of the directory and trailer.mp4 when it is there; a backdrops directory
\* holds only the descriptor
VideoCount(F, n) ==
    IF n.bd THEN 0
    ELSE F.videos[n.dir] + (IF F.trailer[n.dir] THEN 1 ELSE 0)

\* get_imdb_from_nfo(directory)
get_imdb_from_nfo(F, n) ==
    IF n.bd THEN None ELSE F.nfo[n.dir]

\* the id the directory-name pattern gives (scanner.py lines 178-182)
PatternId(n) ==
    LET match == SearchMarker(n)
    IN  IF IsSome(match) /\ EndsWithMarker(n, Val(match)) THEN match ELSE None

\* ------------------------------------------------------------------------
\* scan_and_refresh_trailers: building the candidate list (lines 137-226)
\* ------------------------------------------------------------------------
\* lines 121-131: there is a scan root and every scan root exists
paths_valid(F, paths) ==
    /\ Len(paths) > 0
    /\ \A k \in DOMAIN paths : F.exists[paths[k]]

\* lines 196-210: the files counted are those os.listdir(check_dir) gives;
\* when the listing raises (check_dir is `bad`), they are `files`, the files
\* os.walk gave for the directory being walked
check_files_count(F, bad, search_root, n) ==
    IF search_root.dir = bad THEN VideoCount(F, n)
    ELSE VideoCount(F, search_root)

\* One directory of the walk.  st is [folders, processed, stop]: imdb_folders,
\* processed_series, and whether the limit's break has ended this walk.
scan_visit(F, nfoMode, lim, bad, n, st) ==
    LET season == nfoMode /\ ~n.bd /\ IsSeasonName[n.dir]
        par == Node(parent_dir[n.dir])
        skip == season /\ par.dir \in st.processed
        imdb_id ==
            IF nfoMode
            THEN IF season THEN get_imdb_from_nfo(F, par)
                 ELSE get_imdb_from_nfo(F, n)
            ELSE PatternId(n)
        fromParent == season /\ IsSome(imdb_id)
        search_root == IF fromParent THEN par ELSE n
        processed == IF fromParent THEN st.processed \cup {par.dir}
                     ELSE st.processed
        video_count == check_files_count(F, bad, search_root, n)
    IN  IF skip THEN st
        ELSE IF ~IsSome(imdb_id) \/ video_count > 1
        THEN [st EXCEPT !.processed = processed]
        ELSE [folders |-> Append(st.folders, << search_root.dir, Val(imdb_id) >>),
              processed |-> processed,
              stop |-> lim # 0 /\ Len(st.folders) + 1 >= lim]

\* for root, dirs, files in os.walk(path_to_scan): ... break
RECURSIVE scan_walk(_, _, _, _, _, _, _)
scan_walk(F, nfoMode, lim, bad, walk, k, st) ==
    IF k > Len(walk) \/ st.stop THEN st
    ELSE scan_walk(F, nfoMode, lim, bad, walk, k + 1,
                   scan_visit(F, nfoMode, lim, bad, walk[k], st))

\* for path_to_scan in paths_to_scan: the break above leaves only the inner
\* loop, so every root starts its walk with stop cleared
RECURSIVE scan_roots(_, _, _, _, _, _, _)
scan_roots(F, paths, nfoMode, lim, bad, r, st) ==
    IF r > Len(paths) THEN st
    ELSE scan_roots(F, paths, nfoMode, lim, bad, r + 1,
                    scan_walk(F, nfoMode, lim, bad, Walk(F, paths[r]), 1,
                              [st EXCEPT !.stop = FALSE]))

\* imdb_folders: the candidates (folder, title id) in walk order
imdb_folders(F, paths, nfoMode, lim, bad) ==
    scan_roots(F, paths, nfoMode, lim, bad, 1,
               [folders |-> << >>, processed |-> {}, stop |-> FALSE]).folders

\* ------------------------------------------------------------------------
\* watch_for_new_media (lines 439-477)
\* ------------------------------------------------------------------------
\* The body of "for root, dirs, files in os.walk(...)".  st is
\* [video_count, has_media, raised]; video_count is None while the local
\* variable is unbound, and reading it then raises UnboundLocalError.
watch_visit(F, nfoMode, n, st) ==
    IF st.raised THEN st
    ELSE IF ~nfoMode THEN [st EXCEPT !.has_media = FALSE]
    ELSE LET imdb_id == get_imdb_from_nfo(F, n)
             vc == IF IsSome(imdb_id) THEN Some(VideoCount(F, n))
                   ELSE st.video_count
         IN  IF ~IsSome(vc) THEN [st EXCEPT !.raised = TRUE]
             ELSE [video_count |-> vc, has_media |-> Val(vc) = 1,
                   raised |-> FALSE]

RECURSIVE watch_walk(_, _, _, _, _)
watch_walk(F, nfoMode, walk, k, st) ==
    IF k > Len(walk) THEN st
    ELSE watch_walk(F, nfoMode, walk, k + 1,
                    watch_visit(F, nfoMode, walk[k], st))

\* The "else:" at line 462 belongs to the for loop: it runs once, after the
\* walk, with root and files still bound to the last directory walked.
watch_else(F, walk, st) ==
    LET root == walk[Len(walk)]
        matched == IsSome(PatternId(root))
        has_media == IF matched THEN VideoCount(F, root) = 1 ELSE st.has_media
    IN  IF has_media THEN {root} ELSE {}

\* "for path_to_scan in paths_to_scan": a root that does not exist is
\* skipped; the locals (video_count) live on from one root to the next.
\* acc is [st, folders]: the loop's locals and current_folders.
RECURSIVE watch_roots(_, _, _, _, _)
watch_roots(F, paths, nfoMode, k, acc) ==
    IF k > Len(paths) \/ acc.st.raised THEN acc
    ELSE IF ~F.exists[paths[k]]
    THEN watch_roots(F, paths, nfoMode, k + 1, acc)
    ELSE LET walk == Walk(F, paths[k])
             st == watch_walk(F, nfoMode, walk, 1, acc.st)
             found == IF st.raised THEN {} ELSE watch_else(F, walk, st)
         IN  watch_roots(F, paths, nfoMode, k + 1,
                         [st |-> st, folders |-> acc.folders \cup found])

\* [raised, folders]: whether the call raised, else current_folders (the
\* empty set when there is no scan root)
watch_for_new_media(F, paths, nfoMode) ==
    LET acc == watch_roots(F, paths, nfoMode, 1,
                           [st |-> [video_count |-> None,
                                    has_media |-> FALSE, raised |-> FALSE],
                            folders |-> {}])
    IN  [raised |-> acc.st.raised,
         folders |-> IF acc.st.raised THEN {} ELSE acc.folders]

\* One call of watch_for_new_media.  os.walk swallows the error of listing
\* its top directory and yields nothing (`listed` is false): with a single
\* scan root no iteration has bound `root` when the for loop's else clause
\* reads it at line 464, which raises UnboundLocalError.
watch_call(F, paths, nfoMode, listed) ==
    IF listed THEN watch_for_new_media(F, paths, nfoMode)
    ELSE [raised |-> TRUE, folders |-> {}]

\* the outcomes of listing the scan root: it can fail only where one root
\* is walked
WalkOutcomes(F, paths) ==
    IF Len(paths) = 1 /\ F.exists[paths[1]] THEN {TRUE, FALSE} ELSE {TRUE}

\* the id run_continuous_monitor takes for a new folder (lines 510-516)
new_folder_id(F, nfoMode, n) ==
    IF nfoMode THEN get_imdb_from_nfo(F, n) ELSE SearchMarker(n)

\* ------------------------------------------------------------------------
\* initialize_expiration_database: seeding from the descriptors (393-417)
\* ------------------------------------------------------------------------
\* the expiry a descriptor seeds, if "if expiration_time:" lets it
seed_of(F, paths, d) ==
    IF /\ F.exists[d] /\ IsSome(F.strm[d])
       /\ \E k \in DOMAIN paths : F.exists[paths[k]] /\ InTree(d, paths[k])
       /\ Truthy(get_expiration_time(Val(F.strm[d])))
    THEN get_expiration_time(Val(F.strm[d]))
    ELSE None

seeded_expirations(F, paths) == [d \in Dirs |-> seed_of(F, paths, d)]

strm_files_found(F, paths) == \E d \in Dirs : IsSome(seed_of(F, paths, d))

\* ------------------------------------------------------------------------
\* check_expiring_links: choosing the links to refresh (lines 332-356)
\* ------------------------------------------------------------------------
\* expiration_time - current_time < 3600
ExpiresSoon(expiration_time, current_time) ==
    expiration_time - current_time < SweepWindow

\* the entry of directory d is swept with the first marker of its path
IsExpiring(exps, ign, current_time, d) ==
    /\ IsSome(exps[d])
    /\ ExpiresSoon(Val(exps[d]), current_time)
    /\ IsSome(SearchMarker(Node(d)))
    /\ ~IsSome(ign[Val(SearchMarker(Node(d)))])

RECURSIVE expiring_folders(_, _, _, _)
expiring_folders(exps, ign, current_time, d) ==
    IF d > Cardinality(Dirs) THEN << >>
    ELSE (IF IsExpiring(exps, ign, current_time, d)
          THEN << << d, Val(SearchMarker(Node(d))) >> >>
          ELSE << >>)
         \o expiring_folders(exps, ign, current_time, d + 1)

\* ------------------------------------------------------------------------
\* cache.py: the two JSON files
\* ------------------------------------------------------------------------
\* Mutant of load_cache: the file is never read
load_cache_empty(file, empty, ok) == empty

\* Mutant of load_cache: a read that raises still yields the file's mapping
load_cache_unfailing(file, empty, ok) == file

\* load_expiration_times / load_ignored_titles: the file's mapping, or {}
\* when reading it raises
load_cache(file, empty, ok) == IF ok THEN file ELSE empty

\* Mutant of save_cache: the mapping is never written
save_cache_skipped(file, mapping, ok) == file

\* save_expiration_times / save_ignored_titles: the file takes the mapping,
\* or keeps what it held when open(cache_file, "w") raises (logged and
\* swallowed)
save_cache(file, mapping, ok) == IF ok THEN mapping ELSE file

\* the disturbances so far: reads that raised (a cache file, a directory
\* listing), writes that raised (a cache file, a descriptor) and edits of
\* the ignore file made from outside the program
NoFaults == [read |-> 0, write |-> 0, edits |-> 0]
FaultCount == faults.read + faults.write + faults.edits
\* an I/O operation succeeds, or fails while the fault budget lasts
IoOutcomes == IF FaultCount < MaxFaults THEN {TRUE, FALSE} ELSE {TRUE}
Fault(ok) == IF ok THEN 0 ELSE 1
\* the count after reads (writes) of which each ok is one's outcome
ReadFaults(oks) ==
    [faults EXCEPT !.read = @ + Cardinality({k \in DOMAIN oks : ~oks[k]})]
WriteFaults(oks) ==
    [faults EXCEPT !.write = @ + Cardinality({k \in DOMAIN oks : ~oks[k]})]

\* ------------------------------------------------------------------------
\* The resolver (imdb_scraper.py), seen from process_imdb_folder
\* ------------------------------------------------------------------------
\* what happens to a request: a video is found, the page holds none, or the
\* request fails (exception, timeout, HTTP status other than 200)
Outcomes == {"found", "notfound", "error"}

\* get_trailer_video_page_url: the page URL, or None both when no suitable
\* video is found (line 339) and when the request raises (line 342)
get_trailer_video_page_url(outcome) ==
    IF outcome = "found" THEN Some("page") ELSE None

\* get_direct_video_url_from_page: the playback URL, or None on a bad
\* status, a page without playback data, or an exception
get_direct_video_url_from_page(outcome, url) ==
    IF outcome = "found" THEN Some(url) ELSE None

\* the URLs the resolver may hand out: without Expires, with a non-numeric
\* one, with Expires=0, with an expiry less than a sweep window ahead of the
\* start time and with one more than a sweep window ahead
UrlChoices ==
    {UrlNoExpires, UrlBadExpires, Url("num", 0),
     Url("num", StartTime + TickLen), Url("num", StartTime + 3 * TickLen)}

\* ------------------------------------------------------------------------
\* process_imdb_folder (lines 34-108)
\* ------------------------------------------------------------------------
Terminal ==
    {"IgnoredSkip", "ValidCached", "Persisted", "MarkedIgnored", "Failed",
     "NoVideoUrl", "DownloadFailed"}
\* the states in which a worker awaits the resolver
InResolver == {"lookup", "direct"}

\* a worker: its candidate, where it stands, and what became of its
\* get_trailer_video_page_url request ("none" before it returns)
NewTask(c) ==
    [root |-> c[1], imdb_id |-> c[2], st |-> "queued", look |-> "none"]

RECURSIVE NewTasks(_, _)
NewTasks(folders, k) ==
    IF k > Len(folders) THEN << >>
    ELSE << NewTask(folders[k]) >> \o NewTasks(folders, k + 1)

\* Mutant of is_ignored: the folder path is looked up in the mapping keyed
\* by title id, so nothing is ever found
is_ignored_by_path(imdb_id, ign) == FALSE

\* line 46: if imdb_id in ignored_titles
is_ignored(imdb_id, ign) == IsSome(ign[imdb_id])

\* Mutant of link_still_valid: the comparison turned round
link_still_valid_inverted(exps, d, current_time) ==
    /\ Truthy(exps[d])
    /\ current_time > Val(exps[d])

\* line 67: if expiration_time and current_time < expiration_time
link_still_valid(exps, d, current_time) ==
    /\ Truthy(exps[d])
    /\ current_time < Val(exps[d])

\* Mutant of first_state: the expiry test is made in download mode too
first_state_by_expiry(t, ign, exps, F, dl, current_time) ==
    IF is_ignored(t.imdb_id, ign) THEN "IgnoredSkip"
    ELSE IF link_still_valid(exps, t.root, current_time) THEN "ValidCached"
    ELSE "lookup"

\* lines 46-74: where the worker stands when it first suspends or returns
first_state(t, ign, exps, F, dl, current_time) ==
    IF is_ignored(t.imdb_id, ign) THEN "IgnoredSkip"
    ELSE IF dl
    THEN IF F.trailer[t.root] THEN "ValidCached" ELSE "lookup"
    ELSE IF link_still_valid(exps, t.root, current_time) THEN "ValidCached"
    ELSE "lookup"

\* lines 99-103: the entry of a title without trailer
ignore_entry(d, current_time) ==
    [path |-> d, last_checked |-> current_time,
     reason |-> "No trailer available"]

\* Mutant of after_lookup: without a page URL the worker ends as Failed
after_lookup_failed(video_page_url) ==
    IF IsSome(video_page_url) THEN "direct" ELSE "Failed"

\* lines 97-104: what the worker does with the page URL it got
after_lookup(video_page_url) ==
    IF IsSome(video_page_url) THEN "direct" ELSE "MarkedIgnored"

\* lines 93-95: new_expiration = get_expiration_time(video_url);
\* if new_expiration: expiration_times[strm_path] = new_expiration
with_new_expiration(exps, d, url) ==
    IF Truthy(get_expiration_time(url))
    THEN [exps EXCEPT ![d] = get_expiration_time(url)]
    ELSE exps

InBatch ==
    pc \in {"scan_batch", "sched_batch", "boot_batch", "new_batch",
            "sweep_batch"}

\* the download flag the batch's workers run with: the monitor's bootstrap
\* scan is called without it (line 422), so it runs with the default False
batch_download == IF pc = "boot_batch" THEN FALSE ELSE download

\* "async with semaphore: await process_imdb_folder(...)" up to the first
\* await: the worker takes a permit and either returns at once or calls
\* get_trailer_video_page_url
TaskStart(i) ==
    /\ InBatch
    /\ tasks[i].st = "queued"
    /\ semaphore > 0
    /\ LET st == first_state(tasks[i], ignored_titles, expiration_times, FS,
                             batch_download, now)
       IN  /\ tasks' = [tasks EXCEPT ![i].st = st]
           /\ semaphore' = IF st \in Terminal THEN semaphore
                           ELSE semaphore - 1
    /\ UNCHANGED << cfgvars, sched, fsvars, cachevars, monvars, now, pc, ticks,
                    cycles, faults >>

\* lines 78-79 and 97-106: get_trailer_video_page_url returns
LookupReturn(i) ==
    /\ InBatch
    /\ tasks[i].st = "lookup"
    /\ \E outcome \in Outcomes, ok \in IoOutcomes :
         LET st == after_lookup(get_trailer_video_page_url(outcome))
             t == tasks[i]
             ign == [ignored_titles EXCEPT
                       ![t.imdb_id] = Some(ignore_entry(t.root, now))]
         IN  /\ tasks' = [tasks EXCEPT ![i].st = st, ![i].look = outcome]
             /\ IF st = "direct"
                THEN /\ ok
                     /\ UNCHANGED << semaphore, ignored_titles,
                                     ignored_titles_json, faults >>
                ELSE /\ ignored_titles' = ign
                     /\ ignored_titles_json' =
                            save_cache(ignored_titles_json, ign, ok)
                     /\ faults' = WriteFaults(<< ok >>)
                     /\ semaphore' = semaphore + 1
    /\ UNCHANGED << cfgvars, sched, fsvars, expiration_times,
                    trailer_expirations_json, monvars, now, pc, ticks,
                    cycles >>

\* lines 80-81: get_direct_video_url_from_page returns None; the worker
\* returns without an else branch
DirectNone(i) ==
    /\ \E outcome \in Outcomes :
         ~IsSome(get_direct_video_url_from_page(outcome, UrlNoExpires))
    /\ tasks' = [tasks EXCEPT ![i].st = "NoVideoUrl"]
    /\ semaphore' = semaphore + 1
    /\ UNCHANGED << strm, expiration_times, trailer_expirations_json,
                    faults >>

\* the hosts a playback URL may name
VideoHosts == {"imdb", "youtube"}

\* download_trailer, file_manager.py line 84:
\* "youtube.com" in video_url or "youtu.be" in video_url
is_youtube(host) == host = "youtube"

\* lines 82-86: in download mode the worker goes on to download_trailer,
\* which takes the yt-dlp branch or the aiohttp branch by the URL's host
DirectDownload(i, host) ==
    /\ tasks' = [tasks EXCEPT
                   ![i].st = IF is_youtube(host) THEN "ytdl" ELSE "download"]
    /\ UNCHANGED << semaphore, strm, expiration_times,
                    trailer_expirations_json, faults >>

\* line 91 raises (create_or_update_strm_file): caught at line 107
DirectWriteFails(i) ==
    /\ FaultCount < MaxFaults
    /\ tasks' = [tasks EXCEPT ![i].st = "Failed"]
    /\ faults' = WriteFaults(<< FALSE >>)
    /\ semaphore' = semaphore + 1
    /\ UNCHANGED << strm, expiration_times, trailer_expirations_json >>

\* lines 89-96: the descriptor is written, the expiry recorded and saved
DirectPersist(i, u) ==
    \E ok \in IoOutcomes :
      LET exps == with_new_expiration(expiration_times, tasks[i].root, u)
          saves == Truthy(get_expiration_time(u))
      IN  /\ tasks' = [tasks EXCEPT ![i].st = "Persisted"]
          /\ strm' = [strm EXCEPT ![tasks[i].root] = Some(u)]
          /\ expiration_times' = exps
          /\ ~saves => ok
          /\ trailer_expirations_json' =
                 IF saves THEN save_cache(trailer_expirations_json, exps, ok)
                 ELSE trailer_expirations_json
          /\ faults' = WriteFaults(<< ok >>)
          /\ semaphore' = semaphore + 1

\* lines 80-96: get_direct_video_url_from_page returns
DirectReturn(i) ==
    /\ InBatch
    /\ tasks[i].st = "direct"
    /\ \/ DirectNone(i)
       \/ \E u \in UrlChoices :
            /\ IsSome(get_direct_video_url_from_page("found", u))
            /\ IF batch_download
               THEN \E host \in VideoHosts : DirectDownload(i, host)
               ELSE DirectPersist(i, u) \/ DirectWriteFails(i)
    /\ UNCHANGED << cfgvars, sched, exists, videos, nfo, trailer, ignored_titles,
                    ignored_titles_json, monvars, now, pc, ticks, cycles >>

\* download_trailer, file_manager.py lines 169-174: an exception is logged,
\* trailer.mp4 is removed if it is there, and the call returns False
download_cleanup(i) ==
    /\ tasks' = [tasks EXCEPT ![i].st = "DownloadFailed"]
    /\ trailer' = [trailer EXCEPT ![tasks[i].root] = FALSE]
    /\ semaphore' = semaphore + 1

\* download_trailer, file_manager.py lines 145-155: the request is answered
\* and open(trailer_path, "wb") creates the file, or the request raises
\* (timeout, connection error, raise_for_status)
DownloadReturn(i) ==
    /\ InBatch
    /\ tasks[i].st = "download"
    /\ \/ /\ tasks' = [tasks EXCEPT ![i].st = "writing"]
          /\ trailer' = [trailer EXCEPT ![tasks[i].root] = TRUE]
          /\ UNCHANGED semaphore
       \/ download_cleanup(i)
    /\ UNCHANGED << cfgvars, sched, exists, videos, nfo, strm, cachevars, monvars,
                    now, pc, ticks, cycles, faults >>

\* download_trailer, file_manager.py lines 156-168: the last chunk has been
\* written to the open file and the call returns True (line 87: success),
\* or reading a chunk raises
DownloadEnds(i) ==
    /\ InBatch
    /\ tasks[i].st = "writing"
    /\ \/ /\ tasks' = [tasks EXCEPT ![i].st = "Persisted"]
          /\ semaphore' = semaphore + 1
          /\ UNCHANGED trailer
       \/ download_cleanup(i)
    /\ UNCHANGED << cfgvars, sched, exists, videos, nfo, strm, cachevars, monvars,
                    now, pc, ticks, cycles, faults >>

\* what the yt-dlp run leaves at trailer.mp4: a video, an HTML page, an
\* empty file, or nothing (yt-dlp is not installed, it raised, or it wrote
\* no file)
YtDlpResults == {"video", "html", "empty", "none"}

\* download_trailer, file_manager.py lines 86-140, the yt-dlp branch: what
\* the call returns (ok) and whether trailer.mp4 is there afterwards (file),
\* given what yt-dlp left and whether the file was there before (had).  An
\* HTML page is removed (lines 127-132); an empty file is reported as a
\* failure and left where it is (lines 138-140); when yt-dlp wrote nothing,
\* lines 123-140 judge the file that was there before, which may be empty.
youtube_download(result, had) ==
    CASE result = "video" -> {[ok |-> TRUE, file |-> TRUE]}
      [] result = "html" -> {[ok |-> FALSE, file |-> FALSE]}
      [] result = "empty" -> {[ok |-> FALSE, file |-> TRUE]}
      [] result = "none" ->
           IF had THEN {[ok |-> TRUE, file |-> TRUE],
                        [ok |-> FALSE, file |-> TRUE]}
           ELSE {[ok |-> FALSE, file |-> FALSE]}

\* download_trailer returns from its yt-dlp branch (scanner.py line 87:
\* success)
YtDlpReturn(i) ==
    /\ InBatch
    /\ tasks[i].st = "ytdl"
    /\ \E result \in YtDlpResults :
         \E o \in youtube_download(result, trailer[tasks[i].root]) :
           /\ tasks' = [tasks EXCEPT
                          ![i].st = IF o.ok THEN "Persisted"
                                    ELSE "DownloadFailed"]
           /\ trailer' = [trailer EXCEPT ![tasks[i].root] = o.file]
    /\ semaphore' = semaphore + 1
    /\ UNCHANGED << cfgvars, sched, exists, videos, nfo, strm, cachevars, monvars,
                    now, pc, ticks, cycles, faults >>

AllDone == \A i \in DOMAIN tasks : tasks[i].st \in Terminal

\* ------------------------------------------------------------------------
\* The clock: time passes while the program works; while the scheduler
\* waits, it passes by the sleeps of its polling loop
\* ------------------------------------------------------------------------
Tick ==
    /\ ticks < MaxTicks
    /\ pc # "sched_poll"
    /\ now' = now + TickLen
    /\ ticks' = ticks + 1
    /\ UNCHANGED << cfgvars, sched, fsvars, cachevars, monvars, pc, tasks,
                    semaphore, cycles, faults >>

\* ------------------------------------------------------------------------
\* scan_and_refresh_trailers as the one-shot scan (and run_scheduler's job)
\* ------------------------------------------------------------------------
\* The directories whose listing may raise during a scan, 0 for none.  Only
\* a series folder reached from a season folder is offered: for any other
\* directory check_dir is the directory being walked, so that the fallback
\* counts the same files.
ListFailures(F, nfoMode) ==
    {0} \cup
    {d \in Dirs : /\ nfoMode
                  /\ FaultCount < MaxFaults
                  /\ F.exists[d]
                  /\ \E c \in Dirs : /\ F.exists[c] /\ parent_dir[c] = d
                                     /\ IsSeasonName[c]}

\* lines 121-131: without a scan root, or with one that does not exist, the
\* scan logs an error and returns.  Lines 133-135 and 228-261: else it loads
\* both caches, builds the candidates and hands them to a pool of `workers`
\* permits; with no candidate it returns
StartBatch(workers, lim, kind, idle) ==
    IF ~paths_valid(FS, scan_paths)
    THEN /\ pc' = idle
         /\ UNCHANGED << expiration_times, ignored_titles, tasks, semaphore,
                         faults >>
    ELSE \E okE \in IoOutcomes, okI \in IoOutcomes,
            bad \in ListFailures(FS, use_nfo) :
           LET folders == imdb_folders(FS, scan_paths, use_nfo, lim, bad)
               oks == << okE, okI, bad = 0 >>
           IN  /\ FaultCount + Cardinality({k \in 1..3 : ~oks[k]})
                    <= MaxFaults
               /\ expiration_times' =
                      load_cache(trailer_expirations_json, EmptyExpirations,
                                 okE)
               /\ ignored_titles' =
                      load_cache(ignored_titles_json, EmptyIgnored, okI)
               /\ faults' = ReadFaults(oks)
               /\ IF Len(folders) = 0
                  THEN /\ pc' = idle
                       /\ UNCHANGED << tasks, semaphore >>
                  ELSE /\ pc' = kind
                       /\ tasks' = NewTasks(folders, 1)
                       /\ semaphore' = workers

ScanStart ==
    /\ pc = "idle"
    /\ cycles < MaxCycles
    /\ StartBatch(worker_count, limit, "scan_batch", "idle")
    /\ cycles' = cycles + 1
    /\ UNCHANGED << cfgvars, sched, fsvars, trailer_expirations_json,
                    ignored_titles_json, monvars, now, ticks >>

\* asyncio.run(process_all()) returns
ScanDone ==
    /\ pc = "scan_batch"
    /\ AllDone
    /\ pc' = "idle"
    /\ tasks' = << >>
    /\ UNCHANGED << cfgvars, sched, fsvars, cachevars, monvars, now, semaphore,
                    ticks, cycles, faults >>

\* ------------------------------------------------------------------------
\* run_scheduler (lines 283-313)
\* ------------------------------------------------------------------------
\* lines 291-308: without the schedule module the scheduler logs an error
\* and returns; else it runs the job, a one-shot scan without limit
SchedStart ==
    /\ pc = "sched_start"
    /\ IF ~sched.installed
       THEN /\ pc' = "sched_exit"
            /\ UNCHANGED << expiration_times, ignored_titles, tasks,
                            semaphore, faults, cycles >>
       ELSE /\ cycles < MaxCycles
            /\ cycles' = cycles + 1
            /\ StartBatch(worker_count, 0, "sched_batch", "sched_job_done")
    /\ UNCHANGED << cfgvars, sched, fsvars, trailer_expirations_json,
                    ignored_titles_json, monvars, now, ticks >>

\* The job returns.  After the first run line 309 schedules the job
\* schedule_days days ahead; after a later run the schedule module does the
\* same from the time the job ended.
SchedJobDone ==
    /\ \/ pc = "sched_batch" /\ AllDone
       \/ pc = "sched_job_done"
    /\ sched' = [sched EXCEPT
                   !.next_run = Some(now + schedule_days * DaySeconds)]
    /\ pc' = "sched_poll"
    /\ tasks' = << >>
    /\ UNCHANGED << cfgvars, fsvars, cachevars, monvars, now, semaphore,
                    ticks, cycles, faults >>

\* how many sleeps of PollSleep seconds it takes from t until `due`
SleepsUntil(t, due) ==
    IF t >= due THEN 0 ELSE (due - t + PollSleep - 1) \div PollSleep

\* lines 311-313, "while True: schedule.run_pending(); time.sleep(60)" while
\* the job is not due: run_pending does nothing, so the polls up to the
\* first one that finds the job due are taken together
SchedPoll ==
    /\ pc = "sched_poll"
    /\ now < Val(sched.next_run)
    /\ now' = now + PollSleep * SleepsUntil(now, Val(sched.next_run))
    /\ UNCHANGED << cfgvars, sched, fsvars, cachevars, monvars, pc, tasks,
                    semaphore, ticks, cycles, faults >>

\* line 312: run_pending finds the job due and runs it
SchedRun ==
    /\ pc = "sched_poll"
    /\ now >= Val(sched.next_run)
    /\ cycles < MaxCycles
    /\ cycles' = cycles + 1
    /\ StartBatch(worker_count, 0, "sched_batch", "sched_job_done")
    /\ UNCHANGED << cfgvars, sched, fsvars, trailer_expirations_json,
                    ignored_titles_json, monvars, now, ticks >>

Scheduler ==
    \/ SchedStart
    \/ SchedJobDone
    \/ SchedPoll
    \/ SchedRun

\* ------------------------------------------------------------------------
\* run_continuous_monitor (lines 480-550)
\* ------------------------------------------------------------------------
\* line 491, initialize_expiration_database: without a scan root it returns
\* an empty database (lines 389-391); else it seeds the database from the
\* descriptors found under the roots that exist, or runs a full scan (no
\* limit, no download flag) when none carries an expiry
MonitorStart ==
    /\ pc = "mon_start"
    /\ IF Len(scan_paths) = 0
       THEN /\ expiration_times' = EmptyExpirations
            /\ pc' = "mon_ready"
            /\ UNCHANGED << ignored_titles, tasks, semaphore, faults >>
       ELSE IF strm_files_found(FS, scan_paths)
       THEN /\ expiration_times' = seeded_expirations(FS, scan_paths)
            /\ pc' = "mon_ready"
            /\ UNCHANGED << ignored_titles, tasks, semaphore, faults >>
       ELSE StartBatch(BootstrapWorkers, 0, "boot_batch", "boot_done")
    /\ UNCHANGED << cfgvars, sched, fsvars, trailer_expirations_json,
                    ignored_titles_json, monvars, now, ticks, cycles >>

\* lines 422-424: the full scan returns and the database is reloaded
BootDone ==
    /\ \/ pc = "boot_batch" /\ AllDone
       \/ pc = "boot_done"
    /\ \E ok \in IoOutcomes :
         /\ expiration_times' =
                load_cache(trailer_expirations_json, EmptyExpirations, ok)
         /\ faults' = ReadFaults(<< ok >>)
    /\ pc' = "mon_ready"
    /\ tasks' = << >>
    /\ UNCHANGED << cfgvars, sched, fsvars, trailer_expirations_json,
                    ignored_titles, ignored_titles_json, monvars, now,
                    semaphore, ticks, cycles >>

\* lines 492-499: save the database, load the ignored titles, take the
\* initial set of folders.  These lines are outside the loop's try: an
\* exception raised by watch_for_new_media ends the monitor.
MonitorReady ==
    /\ pc = "mon_ready"
    /\ \E okE \in IoOutcomes, okI \in IoOutcomes,
          okW \in IoOutcomes \cap WalkOutcomes(FS, scan_paths) :
         LET watch == watch_call(FS, scan_paths, use_nfo, okW)
         IN  /\ FaultCount + Fault(okE) + Fault(okI) + Fault(okW)
                  <= MaxFaults
             /\ trailer_expirations_json' =
                    save_cache(trailer_expirations_json, expiration_times, okE)
             /\ ignored_titles' =
                    load_cache(ignored_titles_json, EmptyIgnored, okI)
             /\ faults' = [faults EXCEPT
                             !.read = @ + Fault(okI) + Fault(okW),
                             !.write = @ + Fault(okE)]
             /\ IF watch.raised
                THEN /\ pc' = "crashed"
                     /\ UNCHANGED last_known_folders
                ELSE /\ pc' = "mon_loop"
                     /\ last_known_folders' = watch.folders
    /\ UNCHANGED << cfgvars, sched, fsvars, expiration_times, ignored_titles_json,
                    new_folders, now, tasks, semaphore, ticks, cycles >>

\* an arbitrary order of a set: "for root in new_folders"
RECURSIVE SeqOf(_)
SeqOf(S) ==
    IF S = {} THEN << >>
    ELSE LET x == CHOOSE y \in S : TRUE IN << x >> \o SeqOf(S \ {x})

\* lines 503-508: one iteration starts; an exception in it is caught at
\* line 548 and logged, and the handler sleeps
LoopWatch ==
    /\ pc = "mon_loop"
    /\ cycles < MaxCycles
    /\ cycles' = cycles + 1
    /\ \E okW \in IoOutcomes \cap WalkOutcomes(FS, scan_paths) :
         LET watch == watch_call(FS, scan_paths, use_nfo, okW)
             new == watch.folders \ last_known_folders
         IN  /\ faults' = ReadFaults(<< okW >>)
             /\ IF watch.raised
                THEN /\ pc' = "mon_retry"
                     /\ UNCHANGED new_folders
                ELSE IF new # {}
                THEN /\ pc' = "mon_new"
                     /\ new_folders' = [current |-> watch.folders,
                                        todo |-> SeqOf(new)]
                ELSE /\ pc' = "mon_sweep"
                     /\ UNCHANGED new_folders
    /\ UNCHANGED << cfgvars, sched, fsvars, cachevars, last_known_folders, now,
                    tasks, semaphore, ticks >>

\* line 550: time.sleep(60) in the handler of line 548, then the next
\* iteration
RetrySleep ==
    /\ pc = "mon_retry"
    /\ pc' = "mon_loop"
    /\ UNCHANGED << cfgvars, sched, fsvars, cachevars, monvars, now, tasks,
                    semaphore, ticks, cycles, faults >>

\* lines 509-529: the next new folder goes to process_imdb_folder on its
\* own (asyncio.run of one coroutine), if an id is found for it
NewFolderStart ==
    /\ pc = "mon_new"
    /\ Len(new_folders.todo) > 0
    /\ LET root == Head(new_folders.todo)
           imdb_id == new_folder_id(FS, use_nfo, root)
       IN  IF IsSome(imdb_id)
           THEN /\ tasks' = << NewTask(<< root.dir, Val(imdb_id) >>) >>
                /\ semaphore' = 1
                /\ pc' = "new_batch"
                /\ UNCHANGED new_folders
           ELSE /\ new_folders' = [new_folders EXCEPT !.todo = Tail(@)]
                /\ UNCHANGED << tasks, semaphore, pc >>
    /\ UNCHANGED << cfgvars, sched, fsvars, cachevars, last_known_folders, now,
                    ticks, cycles, faults >>

NewFolderDone ==
    /\ pc = "new_batch"
    /\ AllDone
    /\ pc' = "mon_new"
    /\ tasks' = << >>
    /\ new_folders' = [new_folders EXCEPT !.todo = Tail(@)]
    /\ UNCHANGED << cfgvars, sched, fsvars, cachevars, last_known_folders, now,
                    semaphore, ticks, cycles, faults >>

\* lines 530-531: last_known_folders = current_folders; save the database
NewFoldersDone ==
    /\ pc = "mon_new"
    /\ Len(new_folders.todo) = 0
    /\ last_known_folders' = new_folders.current
    /\ \E ok \in IoOutcomes :
         /\ trailer_expirations_json' =
                save_cache(trailer_expirations_json, expiration_times, ok)
         /\ faults' = WriteFaults(<< ok >>)
    /\ pc' = "mon_sweep"
    /\ UNCHANGED << cfgvars, sched, fsvars, expiration_times, ignored_titles,
                    ignored_titles_json, new_folders, now, tasks, semaphore,
                    ticks, cycles >>

\* check_expiring_links (lines 316-380): nothing in download mode; else the
\* links expiring soon go to a pool of worker_count permits
SweepStart ==
    /\ pc = "mon_sweep"
    /\ LET folders == expiring_folders(expiration_times, ignored_titles,
                                       now, 1)
       IN  IF download \/ Len(folders) = 0
           THEN /\ pc' = "mon_sleep"
                /\ UNCHANGED << tasks, semaphore >>
           ELSE /\ pc' = "sweep_batch"
                /\ tasks' = NewTasks(folders, 1)
                /\ semaphore' = worker_count
    /\ UNCHANGED << cfgvars, sched, fsvars, cachevars, monvars, now, ticks, cycles,
                    faults >>

SweepDone ==
    /\ pc = "sweep_batch"
    /\ AllDone
    /\ pc' = "mon_sleep"
    /\ tasks' = << >>
    /\ UNCHANGED << cfgvars, sched, fsvars, cachevars, monvars, now, semaphore,
                    ticks, cycles, faults >>

\* line 544: time.sleep(300), then the next iteration
Sleep ==
    /\ pc = "mon_sleep"
    /\ pc' = "mon_loop"
    /\ UNCHANGED << cfgvars, sched, fsvars, cachevars, monvars, now, tasks,
                    semaphore, ticks, cycles, faults >>

\* where the monitor stands inside its "while True" loop
InLoop ==
    pc \in {"mon_loop", "mon_retry", "mon_new", "new_batch", "mon_sweep",
            "sweep_batch", "mon_sleep"}

\* The process ends: its memory is gone, the files stay
ProcessEnds ==
    /\ expiration_times' = EmptyExpirations
    /\ ignored_titles' = EmptyIgnored
    /\ tasks' = << >>
    /\ semaphore' = 0
    /\ last_known_folders' = {}
    /\ new_folders' = [current |-> {}, todo |-> << >>]

\* KeyboardInterrupt inside the try block of lines 502-544 (asyncio.run
\* cancels its workers and re-raises it): caught at line 545, the loop
\* breaks and run_continuous_monitor returns
Interrupt ==
    /\ InLoop
    /\ pc # "mon_retry"
    /\ pc' = "stopped"
    /\ ProcessEnds
    /\ UNCHANGED << cfgvars, sched, fsvars, trailer_expirations_json,
                    ignored_titles_json, now, ticks, cycles, faults >>

\* KeyboardInterrupt inside save_expiration_times at line 531, after
\* open(cache_file, "w") has truncated the file and before json.dump has
\* written the mapping: cache.py catches Exception only, so the interrupt
\* passes through and the file is left without entries
InterruptInSave ==
    /\ pc = "mon_new"
    /\ Len(new_folders.todo) = 0
    /\ trailer_expirations_json' = EmptyExpirations
    /\ pc' = "stopped"
    /\ ProcessEnds
    /\ UNCHANGED << cfgvars, sched, fsvars, ignored_titles_json, now, ticks,
                    cycles, faults >>

\* KeyboardInterrupt inside time.sleep(60) at line 550: the sleep is in the
\* "except Exception" handler, outside the try block, so the
\* "except KeyboardInterrupt" clause of line 545 does not apply and the
\* exception leaves run_continuous_monitor
InterruptInRetry ==
    /\ pc = "mon_retry"
    /\ pc' = "crashed"
    /\ ProcessEnds
    /\ UNCHANGED << cfgvars, sched, fsvars, trailer_expirations_json,
                    ignored_titles_json, now, ticks, cycles, faults >>

\* Between two cycles the user clears an entry of ignored_titles.json (the
\* spec: a title stays ignored "unless the cache file is edited/deleted")
ExternalClear(t) ==
    /\ pc \in {"idle", "sched_poll", "mon_loop", "mon_sleep"}
    /\ FaultCount < MaxFaults
    /\ IsSome(ignored_titles_json[t])
    /\ ignored_titles_json' = [ignored_titles_json EXCEPT ![t] = None]
    /\ faults' = [faults EXCEPT !.edits = @ + 1]
    /\ UNCHANGED << cfgvars, sched, fsvars, expiration_times,
                    trailer_expirations_json, ignored_titles, monvars, now,
                    pc, tasks, semaphore, ticks, cycles >>

\* The library changes under the monitor: a movie folder appears
FolderAppears(d) ==
    /\ pc \in {"mon_loop", "mon_sleep"}
    /\ exists[parent_dir[d]]
    /\ ~exists[d]
    /\ exists' = [exists EXCEPT ![d] = TRUE]
    /\ UNCHANGED << cfgvars, sched, videos, nfo, strm, trailer, cachevars, monvars,
                    now, pc, tasks, semaphore, ticks, cycles, faults >>

\* ------------------------------------------------------------------------
\* trailerfin.py: the command line
\* ------------------------------------------------------------------------
\* the parameters the three entry points declare (scanner.py lines 111-118,
\* 283-289 and 480-486)
scan_and_refresh_trailers_params ==
    << "scan_paths", "worker_count", "use_nfo", "limit", "download",
       "language" >>
run_scheduler_params ==
    << "scan_paths", "worker_count", "use_nfo", "download", "language" >>
run_continuous_monitor_params ==
    << "scan_paths", "worker_count", "use_nfo", "download", "language" >>

\* Python's argument binding: a call with npos positional arguments and the
\* keyword arguments kws binds to params, or raises TypeError
call_binds(params, npos, kws) ==
    /\ npos <= Len(params)
    /\ \A kw \in kws : \E j \in (npos + 1)..Len(params) : params[j] = kw

\* main (lines 66-79): the call each mode makes; "cli_error" is the
\* TypeError of a call that does not bind
main_call(mode) ==
    CASE mode = "cli_monitor" ->
           IF call_binds(run_continuous_monitor_params, 6, {})
           THEN "mon_start" ELSE "cli_error"
      [] mode = "cli_schedule" ->
           IF call_binds(run_scheduler_params, 6, {})
           THEN "sched_start" ELSE "cli_error"
      [] mode = "cli_scan" ->
           IF call_binds(scan_and_refresh_trailers_params, 0,
                         {"scan_paths", "worker_count", "use_nfo", "limit",
                          "download", "language", "force"})
           THEN "idle" ELSE "cli_error"

CliModes == {"cli_scan", "cli_schedule", "cli_monitor"}

Main ==
    /\ pc \in CliModes
    /\ pc' = main_call(pc)
    /\ UNCHANGED << cfgvars, sched, fsvars, cachevars, monvars, now, tasks,
                    semaphore, ticks, cycles, faults >>

\* ------------------------------------------------------------------------
\* Initial states
\* ------------------------------------------------------------------------
\* the .nfo files of the tree (a tvshow.nfo / movie.nfo in the series folder
\* and in each movie folder); no trailer.mp4 yet
LibraryFiles ==
    /\ nfo = [d \in Dirs |-> IF d = 2 THEN Some("tt1")
                             ELSE IF d \in MovieDirs THEN Some("tt2")
                             ELSE None]
    /\ trailer = [d \in Dirs |-> FALSE]

\* the films of the tree: episodes in the season folders, one film in each
\* movie folder
LibraryInit ==
    /\ videos = [d \in Dirs |-> IF d \in {3, 4} THEN 2
                                ELSE IF d \in MovieDirs THEN 1 ELSE 0]
    /\ LibraryFiles

\* a series whose folder holds two extras beside the seasons, and whose
\* first season has one episode so far
ExtrasLibraryInit ==
    /\ videos = [d \in Dirs |-> IF d \in {2, 4} THEN 2
                                ELSE IF d = 3 \/ d \in MovieDirs THEN 1
                                ELSE 0]
    /\ LibraryFiles

\* --workers takes any integer (trailerfin.py lines 17-22, type=int with no
\* range check); 0 is the smallest asyncio.Semaphore takes without raising
AnyWorkers == worker_count \in 0..MaxWorkers

CommonInit ==
    /\ expiration_times = EmptyExpirations
    /\ ignored_titles = EmptyIgnored
    /\ now = StartTime
    /\ tasks = << >>
    /\ semaphore = 0
    /\ last_known_folders = {}
    /\ new_folders = [current |-> {}, todo |-> << >>]
    /\ ticks = 0
    /\ cycles = 0
    /\ faults = NoFaults

\* the schedule module is there and nothing is scheduled
NoSchedule == sched = [installed |-> TRUE, next_run |-> None]

\* a one-shot scan of a library of two movie folders, fresh caches
ScanInit ==
    /\ pc = "idle"
    /\ scan_paths = << 1 >>
    /\ use_nfo = FALSE
    /\ download \in BOOLEAN
    /\ limit = 0
    /\ exists = [d \in Dirs |-> d \in {1} \cup MovieDirs]
    /\ strm = [d \in Dirs |-> None]
    /\ trailer_expirations_json = EmptyExpirations
    /\ ignored_titles_json = EmptyIgnored
    /\ AnyWorkers
    /\ CommonInit
    /\ NoSchedule
    /\ LibraryInit

\* a one-shot scan with --limit 1 --workers 1, of the library or of the two
\* movie folders given as two scan roots
ScanLimitInit ==
    /\ pc = "idle"
    /\ scan_paths \in {<< 1 >>, << 5, 6 >>}
    /\ use_nfo = FALSE
    /\ download = FALSE
    /\ limit = 1
    /\ exists = [d \in Dirs |-> d \in {1} \cup MovieDirs]
    /\ strm = [d \in Dirs |-> None]
    /\ trailer_expirations_json = EmptyExpirations
    /\ ignored_titles_json = EmptyIgnored
    /\ worker_count = 1
    /\ CommonInit
    /\ NoSchedule
    /\ LibraryInit

\* an invocation (one-shot scan or monitor) without a valid scan root: no
\* root is configured, or the configured root does not exist.  The expiry
\* file is the one an earlier run left.
NoRootInit ==
    /\ pc \in {"idle", "mon_start"}
    /\ use_nfo = FALSE
    /\ download = FALSE
    /\ limit = 0
    /\ \/ /\ scan_paths = << >>
          /\ exists = [d \in Dirs |-> d \in {1, 5}]
       \/ /\ scan_paths = << 1 >>
          /\ exists = [d \in Dirs |-> FALSE]
    /\ strm = [d \in Dirs |->
                 IF exists[d] /\ d = 5
                 THEN Some(Url("num", StartTime + 3 * TickLen)) ELSE None]
    /\ trailer_expirations_json =
           [d \in Dirs |-> IF d = 5 THEN Some(StartTime + 3 * TickLen)
                                    ELSE None]
    /\ ignored_titles_json = EmptyIgnored
    /\ AnyWorkers
    /\ CommonInit
    /\ NoSchedule
    /\ LibraryInit

\* the monitor in directory-pattern mode over a library with one movie
\* folder, the other one to come, or with both; no descriptor yet, or one
\* in the first movie folder (its URL expiring soon, or with Expires=0)
MonitorPatternInit ==
    /\ pc = "mon_start"
    /\ scan_paths = << 1 >>
    /\ use_nfo = FALSE
    /\ download = FALSE
    /\ limit = 0
    /\ \E M \in (SUBSET MovieDirs) \ {{}} :
         /\ exists = [d \in Dirs |-> d \in {1} \cup M]
         /\ strm \in {[d \in Dirs |-> None]} \cup
                      {[d \in Dirs |-> IF d \in M /\ \A e \in M : d <= e
                                       THEN Some(u) ELSE None] :
                         u \in {Url("num", StartTime + TickLen),
                                Url("num", 0)}}
    /\ trailer_expirations_json = EmptyExpirations
    /\ ignored_titles_json = EmptyIgnored
    /\ AnyWorkers
    /\ CommonInit
    /\ NoSchedule
    /\ LibraryInit

\* the monitor in .nfo mode over a library with the series and its seasons
MonitorNfoInit ==
    /\ pc = "mon_start"
    /\ scan_paths = << 1 >>
    /\ use_nfo = TRUE
    /\ download = FALSE
    /\ limit = 0
    /\ exists = [d \in Dirs |-> d \in 1..4]
    /\ strm = [d \in Dirs |-> None]
    /\ trailer_expirations_json = EmptyExpirations
    /\ ignored_titles_json = EmptyIgnored
    /\ AnyWorkers
    /\ CommonInit
    /\ NoSchedule
    /\ LibraryInit

\* a one-shot scan in .nfo mode of a library with the series, its folder
\* holding no film or two extras; the ignore file is the one an earlier run
\* left, with the title of a movie folder that is gone since
ScanNfoInit ==
    /\ pc = "idle"
    /\ scan_paths = << 1 >>
    /\ use_nfo = TRUE
    /\ download \in BOOLEAN
    /\ limit = 0
    /\ exists = [d \in Dirs |-> d \in 1..4]
    /\ strm = [d \in Dirs |-> None]
    /\ trailer_expirations_json = EmptyExpirations
    /\ ignored_titles_json =
           [t \in TitleIds |-> IF t = "tt2" THEN Some(ignore_entry(5, 0))
                               ELSE None]
    /\ AnyWorkers
    /\ CommonInit
    /\ NoSchedule
    /\ (LibraryInit \/ ExtrasLibraryInit)

\* a one-shot scan in download mode of a library in which the first movie
\* folder holds nothing but a trailer.mp4 downloaded earlier; the expiry
\* file has no entry for the folder, or one that has run out
DownloadedInit ==
    /\ pc = "idle"
    /\ scan_paths = << 1 >>
    /\ use_nfo = FALSE
    /\ download = TRUE
    /\ limit = 0
    /\ exists = [d \in Dirs |-> d \in {1} \cup MovieDirs]
    /\ videos = [d \in Dirs |-> IF d = 6 THEN 1 ELSE 0]
    /\ nfo = [d \in Dirs |-> None]
    /\ trailer = [d \in Dirs |-> d = 5]
    /\ strm = [d \in Dirs |-> None]
    /\ trailer_expirations_json \in
           {EmptyExpirations,
            [d \in Dirs |-> IF d = 5 THEN Some(StartTime - TickLen)
                                     ELSE None]}
    /\ ignored_titles_json = EmptyIgnored
    /\ worker_count \in 1..MaxWorkers
    /\ CommonInit
    /\ NoSchedule

\* the command line, in each of its three modes, over the library of two
\* movie folders
CliInit ==
    /\ pc \in CliModes
    /\ scan_paths = << 1 >>
    /\ use_nfo = FALSE
    /\ download = FALSE
    /\ limit = 0
    /\ exists = [d \in Dirs |-> d \in {1} \cup MovieDirs]
    /\ strm = [d \in Dirs |-> None]
    /\ trailer_expirations_json = EmptyExpirations
    /\ ignored_titles_json = EmptyIgnored
    /\ worker_count = 1
    /\ CommonInit
    /\ NoSchedule
    /\ LibraryInit

\* the scheduler over a library of one movie folder, with or without the
\* schedule module
SchedInit ==
    /\ pc = "sched_start"
    /\ scan_paths = << 1 >>
    /\ use_nfo = FALSE
    /\ download = FALSE
    /\ limit = 0
    /\ exists = [d \in Dirs |-> d \in {1, 5}]
    /\ strm = [d \in Dirs |-> None]
    /\ trailer_expirations_json = EmptyExpirations
    /\ ignored_titles_json = EmptyIgnored
    /\ worker_count \in 0..1
    /\ sched \in [installed : BOOLEAN, next_run : {None}]
    /\ CommonInit
    /\ LibraryInit

\* a one-shot scan or the monitor over the series folder, which holds a
\* special in a folder of its own that carries its own marker and, in
\* directory-pattern mode, a season folder with two episodes; in .nfo mode
\* the series folder and the special each have an .nfo with the id of their
\* marker
NestedInit ==
    /\ pc \in {"idle", "mon_start"}
    /\ scan_paths = << 2 >>
    /\ use_nfo \in BOOLEAN
    /\ download = FALSE
    /\ limit = 0
    /\ exists = [d \in Dirs |-> d \in {1, 2, 7} \/ (d = 3 /\ ~use_nfo)]
    /\ videos = [d \in Dirs |-> IF d = 3 THEN 2 ELSE IF d = 7 THEN 1 ELSE 0]
    /\ nfo = [d \in Dirs |-> IF d \in {2, 7} THEN SegMarker[d] ELSE None]
    /\ trailer = [d \in Dirs |-> FALSE]
    /\ strm = [d \in Dirs |-> None]
    /\ trailer_expirations_json = EmptyExpirations
    /\ ignored_titles_json = EmptyIgnored
    /\ worker_count = 1
    /\ CommonInit
    /\ NoSchedule

\* the monitor in download mode and directory-pattern mode over a library
\* with one movie folder, the other one to come; nothing is downloaded yet
MonitorDownloadInit ==
    /\ pc = "mon_start"
    /\ scan_paths = << 1 >>
    /\ use_nfo = FALSE
    /\ download = TRUE
    /\ limit = 0
    /\ exists = [d \in Dirs |-> d \in {1, 5}]
    /\ strm = [d \in Dirs |-> None]
    /\ trailer_expirations_json = EmptyExpirations
    /\ ignored_titles_json = EmptyIgnored
    /\ worker_count = 1
    /\ CommonInit
    /\ NoSchedule
    /\ LibraryInit

Init ==
    \/ CliInit
    \/ SchedInit
    \/ ScanInit
    \/ DownloadedInit
    \/ ScanNfoInit
    \/ ScanLimitInit
    \/ NoRootInit
    \/ MonitorPatternInit
    \/ MonitorNfoInit
    \/ NestedInit
    \/ MonitorDownloadInit

Worker ==
    \E i \in DOMAIN tasks :
        \/ TaskStart(i)
        \/ LookupReturn(i)
        \/ DirectReturn(i)
        \/ DownloadReturn(i)
        \/ DownloadEnds(i)
        \/ YtDlpReturn(i)

Monitor ==
    \/ MonitorStart
    \/ BootDone
    \/ MonitorReady
    \/ LoopWatch
    \/ NewFolderStart
    \/ NewFolderDone
    \/ NewFoldersDone
    \/ SweepStart
    \/ SweepDone
    \/ Sleep
    \/ RetrySleep
    \/ Interrupt
    \/ InterruptInSave
    \/ InterruptInRetry
    \/ \E d \in MovieDirs : FolderAppears(d)

Next ==
    \/ Main
    \/ ScanStart
    \/ ScanDone
    \/ Worker
    \/ Scheduler
    \/ Monitor
    \/ \E t \in TitleIds : ExternalClear(t)
    \/ Tick

Spec == Init /\ [][Next]_vars

\* asyncio.run drives the batch: a worker that can take a step takes one
\* (every resolver call and file operation returns or raises), and the
\* batch returns once its workers have ended
BatchReturns == ScanDone \/ BootDone \/ NewFolderDone \/ SweepDone
\* the scheduler's loop runs on: it starts, polls, runs the job when it is
\* due and goes back to polling when the job has returned
FairSpec ==
    Spec /\ WF_vars(Worker) /\ WF_vars(BatchReturns) /\ WF_vars(Scheduler)

\* ========================================================================
\* Properties
\* ========================================================================
\* worker i takes its first step (it leaves the queue)
Starts(i) ==
    /\ i \in DOMAIN tasks'
    /\ tasks[i].st = "queued"
    /\ tasks'[i].st # "queued"

\* get_trailer_video_page_url returns to worker i
LookupEnds(i) ==
    /\ i \in DOMAIN tasks'
    /\ tasks[i].st = "lookup"
    /\ tasks'[i].st # "lookup"

\* worker i writes the descriptor of its folder and returns
Persists(i) ==
    /\ i \in DOMAIN tasks'
    /\ tasks[i].st = "direct"
    /\ tasks'[i].st = "Persisted"

\* the workers inside a resolver call
InFlight == {i \in DOMAIN tasks : tasks[i].st \in InResolver}

\* C1: a worker whose title id is a key of the ignore list when it starts
\* ends in IgnoredSkip at once, in every kind of batch: it calls no resolver
\* and changes neither cache, neither cache file nor the library.
C1_IgnoreSuppression ==
    [][\A i \in DOMAIN tasks :
         (Starts(i) /\ IsSome(ignored_titles[tasks[i].imdb_id]))
         => /\ tasks'[i].st = "IgnoredSkip"
            /\ UNCHANGED << cachevars, fsvars >>]_vars

\* C1 witness: the monitor hands a new folder to a worker while its title is
\* ignored, and the worker has ended in IgnoredSkip without a resolver call.
C1_Witness ==
    /\ pc = "new_batch"
    /\ \E i \in DOMAIN tasks :
         /\ tasks[i].st = "IgnoredSkip"
         /\ tasks[i].look = "none"
         /\ IsSome(ignored_titles[tasks[i].imdb_id])

\* C2 (as claimed): when the trailer-page lookup fails (exception, timeout,
\* HTTP error), the worker ends in Failed and the ignore list is unchanged
\* in memory and on disk.
C2_TransientFailureUntouched ==
    [][\A i \in DOMAIN tasks :
         (LookupEnds(i) /\ tasks'[i].look = "error")
         => /\ tasks'[i].st = "Failed"
            /\ UNCHANGED cachevars]_vars

\* C3 (as claimed): in descriptor mode a worker of a one-shot scan whose
\* expiry entry is present and later than now ends in ValidCached and
\* changes nothing.
C3_IdempotenceAsClaimed ==
    [][\A i \in DOMAIN tasks :
         (/\ Starts(i)
          /\ pc = "scan_batch"
          /\ ~download
          /\ IsSome(expiration_times[tasks[i].root])
          /\ now < Val(expiration_times[tasks[i].root]))
         => /\ tasks'[i].st = "ValidCached"
            /\ UNCHANGED << cachevars, fsvars >>]_vars

\* C3 (amended): in descriptor mode a worker of a one-shot scan whose expiry
\* entry is present and later than now calls no resolver and changes
\* nothing; it ends in ValidCached, or in IgnoredSkip when its title id is in
\* the ignore list.
C3_Idempotence ==
    [][\A i \in DOMAIN tasks :
         (/\ Starts(i)
          /\ pc = "scan_batch"
          /\ ~download
          /\ IsSome(expiration_times[tasks[i].root])
          /\ now < Val(expiration_times[tasks[i].root]))
         => /\ tasks'[i].st =
                  IF IsSome(ignored_titles[tasks[i].imdb_id])
                  THEN "IgnoredSkip" ELSE "ValidCached"
            /\ UNCHANGED << cachevars, fsvars >>]_vars

\* C3 witness: in a second scan, with the expiry database as the first scan
\* saved it, a worker has ended in ValidCached without a resolver call.
C3_Witness ==
    /\ pc = "scan_batch"
    /\ cycles >= 2
    /\ ~download
    /\ \E i \in DOMAIN tasks :
         /\ tasks[i].st = "ValidCached"
         /\ tasks[i].look = "none"
         /\ IsSome(strm[tasks[i].root])
         /\ expiration_times[tasks[i].root]
              = trailer_expirations_json[tasks[i].root]

\* C4 (as claimed, its in-memory half): when a worker writes the descriptor
\* with a URL that carries Expires=T, T a non-negative integer, the expiry
\* database maps the descriptor to T when the worker returns.
C4_ExpiryRecorded ==
    [][\A i \in DOMAIN tasks :
         (Persists(i) /\ ~batch_download
          /\ Val(strm'[tasks[i].root]).kind = "num")
         => expiration_times'[tasks[i].root]
              = Some(Val(strm'[tasks[i].root]).val)]_vars

\* C5 (as claimed): with more candidates than the configured worker count,
\* never more than worker_count workers (of distinct candidate folders) are
\* inside a resolver call, in the one-shot scan, the expiring-link sweep and
\* the monitor's bootstrap scan.
C5_ConcurrencyBound ==
    (/\ InBatch
     /\ Len(tasks) > worker_count
     /\ \A i, j \in DOMAIN tasks : tasks[i].root = tasks[j].root => i = j)
    => Cardinality(InFlight) <= worker_count

\* C6 (as claimed): in .nfo mode the series folder with its two season
\* folders is one candidate of the scan, and no folder is a candidate twice.
C6_SeasonCollapsing ==
    (pc \in {"scan_batch", "boot_batch"} /\ use_nfo)
    => /\ Cardinality({i \in DOMAIN tasks : tasks[i].root = 2}) = 1
       /\ \A i, j \in DOMAIN tasks :
            tasks[i].root = tasks[j].root => i = j

\* C7 (as claimed): a worker of the expiring-link sweep whose entry expires
\* within the sweep window and whose title is not ignored calls the
\* resolver, also when the entry has not expired yet.
C7_ProactiveRefresh ==
    [][\A i \in DOMAIN tasks :
         (/\ Starts(i)
          /\ pc = "sweep_batch"
          /\ IsSome(expiration_times[tasks[i].root])
          /\ Val(expiration_times[tasks[i].root]) - now < SweepWindow
          /\ ~IsSome(ignored_titles[tasks[i].imdb_id]))
         => tasks'[i].st = "lookup"]_vars

\* the folders that qualify as media folders: the active mode finds a title
\* id for them and they hold exactly one video file
Qualifying ==
    {n \in {Node(d) : d \in Dirs} :
        /\ exists[n.dir]
        /\ IsSome(IF use_nfo THEN nfo[n.dir] ELSE SegMarker[n.dir])
        /\ videos[n.dir] + (IF trailer[n.dir] THEN 1 ELSE 0) = 1}

\* C8 (as claimed, for the folders that have no descriptor yet): in a
\* monitor iteration every qualifying folder that is not in the known set is
\* queued for a worker in that iteration.
C8_NewFolderDetection ==
    [][(pc = "mon_loop" /\ cycles' = cycles + 1)
       => \A n \in Qualifying \ last_known_folders :
            ~IsSome(strm[n.dir])
            => /\ pc' = "mon_new"
               /\ \E k \in DOMAIN new_folders'.todo :
                    new_folders'.todo[k] = n]_vars

\* C9 (as claimed): no exception ends the monitor, in either mode.
C9_MonitorNeverCrashes == pc # "crashed"

C11_MultiEpisodeExclusion ==
    [][(pc = "idle" /\ pc' = "scan_batch")
       => \A k \in DOMAIN tasks' :
            videos[tasks'[k].root]
              + (IF trailer[tasks'[k].root] THEN 1 ELSE 0) <= 1]_vars

\* worker i's step ends in a failure: its resolver request failed, or the
\* worker ended without a result (an exception caught at line 107, no
\* playback URL, a failed download)
FailsIn(i) ==
    /\ i \in DOMAIN tasks'
    /\ tasks[i].st \notin Terminal
    /\ \/ LookupEnds(i) /\ tasks'[i].look = "error"
       \/ tasks'[i].st \in {"Failed", "NoVideoUrl", "DownloadFailed"}

\* C12 (as claimed): a failure in one worker leaves every other worker of
\* the batch as it was, and a worker still waiting then does what it would
\* have done without the failure; a batch returns only when every one of its
\* workers has run to its end.
C12_FailureIsolation ==
    [][/\ \A i \in DOMAIN tasks :
            FailsIn(i)
            => \A j \in DOMAIN tasks \ {i} :
                 /\ tasks'[j] = tasks[j]
                 /\ tasks[j].st = "queued"
                    => first_state(tasks[j], ignored_titles',
                                   expiration_times', FS', batch_download',
                                   now')
                       = first_state(tasks[j], ignored_titles,
                                     expiration_times, FS, batch_download,
                                     now)
       /\ (InBatch /\ ~InBatch') => AllDone]_vars

\* C13 (as claimed): in every batch, whatever the worker count, all workers
\* eventually stand in a terminal state, and the batch then returns.
C13_BatchLiveness ==
    /\ InBatch ~> (InBatch /\ AllDone)
    /\ (InBatch /\ AllDone) ~> ~InBatch

\* the states in which the monitor is past its start-up and at work
MonitorAtWork ==
    {"mon_loop", "mon_new", "new_batch", "mon_sweep", "sweep_batch",
     "mon_sleep"}

\* C14 (as claimed): without a valid scan root (none configured, or the
\* configured root missing) the invocation stops before any work: no batch
\* of workers starts, the monitor does not enter its loop, and no step writes
\* a descriptor, an asset or either cache file.
C14_NoWorkWithoutRoot ==
    [][~(Len(scan_paths) > 0 /\ \A k \in DOMAIN scan_paths : exists[scan_paths[k]])
       => /\ pc' \notin MonitorAtWork \cup {"scan_batch", "boot_batch"}
          /\ UNCHANGED << fsvars, trailer_expirations_json,
                          ignored_titles_json >>]_vars

\* C15 (as claimed): with a limit L >= 1 the one-shot scan dispatches at
\* most L candidates, the first L of the walk order over all the scan roots.
C15_CandidateLimit ==
    [][(pc = "idle" /\ pc' = "scan_batch" /\ limit >= 1)
       => LET all == imdb_folders(FS, scan_paths, use_nfo, 0, 0)
          IN  /\ Len(tasks') <= limit
              /\ \A k \in DOMAIN tasks' :
                   /\ k <= Len(all)
                   /\ << tasks'[k].root, tasks'[k].imdb_id >> = all[k]]_vars

\* the two cache files hold what the two in-memory caches hold
Flushed ==
    /\ trailer_expirations_json = expiration_times
    /\ ignored_titles_json = ignored_titles

\* the workers whose record a step changes
Movers == {i \in DOMAIN tasks \cap DOMAIN tasks' : tasks'[i] # tasks[i]}

C17_MonotoneExpiry ==
    [][\A i \in DOMAIN tasks :
         (/\ Persists(i)
          /\ IsSome(expiration_times[tasks[i].root])
          /\ IsSome(expiration_times'[tasks[i].root]))
         => Val(expiration_times'[tasks[i].root])
              >= Val(expiration_times[tasks[i].root])]_vars

\* C18 (as claimed): a title id in the ignore file stays in the ignore file,
\* whatever the program does, also after cache read or write errors.
C18_IgnoredStaysIgnored ==
    [][\A t \in TitleIds :
         IsSome(ignored_titles_json[t]) => IsSome(ignored_titles_json'[t])]_vars

\* C19: a cache file that cannot be read gives an empty mapping and the scan
\* goes on to build its candidates; a worker whose cache flush fails still
\* ends in Persisted or MarkedIgnored with its entry in memory.
C19_CacheErrorsSwallowed ==
    [][/\ (/\ pc = "idle" /\ cycles' = cycles + 1 /\ ~use_nfo
            /\ faults'.read > faults.read)
          => /\ expiration_times' = EmptyExpirations
                \/ ignored_titles' = EmptyIgnored
             /\ expiration_times'
                  \in {EmptyExpirations, trailer_expirations_json}
             /\ ignored_titles' \in {EmptyIgnored, ignored_titles_json}
             /\ LET folders == imdb_folders(FS, scan_paths, use_nfo,
                                             limit, 0)
                IN  IF Len(folders) = 0 THEN pc' = "idle"
                    ELSE /\ pc' = "scan_batch"
                         /\ Len(tasks') = Len(folders)
       /\ \A i \in DOMAIN tasks :
            /\ (/\ faults'.write > faults.write
                 /\ tasks[i].st = "direct"
                 /\ tasks'[i] # tasks[i]
                 /\ strm' # strm)
               => /\ tasks'[i].st = "Persisted"
                  /\ expiration_times'[tasks[i].root]
                       = get_expiration_time(Val(strm'[tasks[i].root]))
            /\ (LookupEnds(i) /\ faults'.write > faults.write)
               => /\ tasks'[i].st = "MarkedIgnored"
                  /\ IsSome(ignored_titles'[tasks[i].imdb_id])]_vars

\* C19 witness: a worker has ended in Persisted although the flush of the
\* expiry file failed: the expiry is in memory and not in the file.
C19_Witness ==
    /\ faults.write > 0
    /\ \E i \in DOMAIN tasks :
         /\ tasks[i].st = "Persisted"
         /\ IsSome(expiration_times[tasks[i].root])
         /\ ~IsSome(trailer_expirations_json[tasks[i].root])

\* C20 (as claimed): a worker that records an expiry has written the
\* descriptor with the URL the expiry comes from; and a worker of a scan that
\* writes the first descriptor of a folder with a URL carrying Expires=T
\* leaves the expiry database at T for it.
C20_DescriptorBeforeCache ==
    [][\A i \in DOMAIN tasks :
         /\ (/\ tasks[i].st = "direct"
              /\ expiration_times'[tasks[i].root]
                   # expiration_times[tasks[i].root])
            => /\ IsSome(strm'[tasks[i].root])
               /\ get_expiration_time(Val(strm'[tasks[i].root]))
                    = expiration_times'[tasks[i].root]
         /\ (/\ Persists(i)
              /\ pc = "scan_batch"
              /\ ~download
              /\ ~IsSome(strm[tasks[i].root])
              /\ Val(strm'[tasks[i].root]).kind = "num")
            => /\ IsSome(expiration_times'[tasks[i].root])
               /\ Val(expiration_times'[tasks[i].root])
                    = Val(strm'[tasks[i].root]).val]_vars

\* directory d holds a descriptor under an existing scan root
HasDescriptor(d) ==
    /\ exists[d]
    /\ IsSome(strm[d])
    /\ \E k \in DOMAIN scan_paths :
         exists[scan_paths[k]] /\ InTree(d, scan_paths[k])

\* C21: when the monitor starts over existing scan roots, every descriptor
\* found under them whose URL carries Expires=T has its path mapped to T in
\* the initial expiry cache, and the bootstrap scan is run if and only if no
\* descriptor with an Expires=T exists.
C21_MonitorBootstrap ==
    [][(pc = "mon_start" /\ pc' # "mon_start"
        /\ paths_valid(FS, scan_paths))
       => LET seeds == {d \in Dirs : /\ HasDescriptor(d)
                                     /\ Val(strm[d]).kind = "num"}
          IN  /\ pc' = "mon_ready"
                 => \A d \in seeds :
                      expiration_times'[d] = Some(Val(strm[d]).val)
              /\ pc' \in {"boot_batch", "boot_done"} <=> seeds = {}]_vars

\* C22: an interruption delivered at any point of the monitor's loop stops
\* the monitor by a normal return, not by an exception, and leaves each
\* cache file holding the mapping of its last completed flush: the step
\* that ends the monitor changes neither file.
C22_CleanInterruption ==
    [][(InLoop /\ ~InLoop' /\ pc' \in {"stopped", "crashed"})
       => /\ pc' = "stopped"
          /\ UNCHANGED << trailer_expirations_json, ignored_titles_json >>
      ]_vars

\* C23: started from the command line over an existing root, each mode gets
\* to its cycle: without flag the one-shot scan, with the schedule flag the
\* scheduler, with the monitor flag the monitor; none ends in an error
\* before.
C23_CliReachesCycle ==
    [][(pc \in CliModes)
       => /\ pc' # "cli_error"
          /\ pc = "cli_scan" => pc' = "idle"
          /\ pc = "cli_schedule" => pc' = "sched_start"
          /\ pc = "cli_monitor" => pc' = "mon_start"
      ]_vars

\* worker i starts in download mode with trailer.mp4 in its folder
StartsDownloaded(i) ==
    /\ Starts(i)
    /\ batch_download
    /\ trailer[tasks[i].root]

\* C24 (as claimed): in download mode a worker whose folder holds trailer.mp4
\* ends in ValidCached without a resolver call, whatever the expiry cache
\* holds for the folder.
C24_DownloadSkipAsClaimed ==
    [][\A i \in DOMAIN tasks :
         StartsDownloaded(i) => tasks'[i].st = "ValidCached"]_vars

\* C24 (amended): in download mode a worker whose folder holds trailer.mp4
\* calls no resolver and changes nothing, whatever the expiry cache holds
\* for the folder; it ends in ValidCached, or in IgnoredSkip when its title
\* id is in the ignore list.
C24_DownloadSkip ==
    [][\A i \in DOMAIN tasks :
         StartsDownloaded(i)
         => /\ tasks'[i].st =
                  IF IsSome(ignored_titles[tasks[i].imdb_id])
                  THEN "IgnoredSkip" ELSE "ValidCached"
            /\ tasks'[i].look = "none"
            /\ UNCHANGED << cachevars, fsvars >>]_vars

\* C24 witness: a worker of a download-mode scan has ended in ValidCached
\* without a resolver call; its folder holds trailer.mp4 and the expiry
\* cache holds an entry for it that has run out.
C24_Witness ==
    /\ pc = "scan_batch"
    /\ download
    /\ \E i \in DOMAIN tasks :
         /\ tasks[i].st = "ValidCached"
         /\ tasks[i].look = "none"
         /\ trailer[tasks[i].root]
         /\ IsSome(expiration_times[tasks[i].root])
         /\ Val(expiration_times[tasks[i].root]) < now

\* C25: whenever download_trailer reports success to a worker, trailer.mp4
\* is in the worker's folder at that moment.
C25_DownloadedAssetExists ==
    [][\A i \in DOMAIN tasks :
         (/\ i \in DOMAIN tasks'
          /\ tasks[i].st = "writing"
          /\ tasks'[i].st = "Persisted")
         => trailer'[tasks[i].root]]_vars

\* C26: the scheduler runs a scan at once when it starts and runs it again
\* when the configured number of days has passed, found by a poll at most
\* one polling interval late; and its loop never exits on its own.
C26_ScheduledRuns ==
    /\ (pc = "sched_start") ~> (cycles >= 1)
    /\ (pc = "sched_start") ~> (cycles >= 2)
    /\ [](pc = "sched_poll" /\ cycles >= 1 /\ IsSome(sched.next_run)
          => now < Val(sched.next_run) + PollSleep)
    /\ [](pc # "sched_exit")

\* the states of a worker that has called the resolver and not yet returned
Resolving == {"lookup", "direct", "download", "writing", "ytdl"}

\* worker i, in Resolving, returns
ResolvingEnds(i) ==
    /\ i \in DOMAIN tasks'
    /\ tasks[i].st \in Resolving
    /\ tasks'[i].st \in Terminal

\* C27: a worker that leaves Resolving without an exception ends in
\* Persisted, with the descriptor written or the asset downloaded, or in
\* MarkedIgnored, with its title in the ignore list; there is no third way
\* out that leaves the folder and the ignore list as they were.
C27_TwoOutcomes ==
    [][\A i \in DOMAIN tasks :
         (ResolvingEnds(i) /\ tasks'[i].st # "Failed")
         => \/ /\ tasks'[i].st = "Persisted"
               /\ \/ IsSome(strm'[tasks[i].root])
                  \/ trailer'[tasks[i].root]
            \/ /\ tasks'[i].st = "MarkedIgnored"
               /\ IsSome(ignored_titles'[tasks[i].imdb_id])]_vars

\* C28: inside a batch the expiry cache (in memory or on disk) changes only
\* in the step in which a worker ends in Persisted with a URL from the
\* resolver, and the ignore list only in the step in which a worker ends in
\* MarkedIgnored; a worker that ends in IgnoredSkip or ValidCached changes
\* neither cache and no file of the library.
C28_WritesConfined ==
    [][(InBatch /\ InBatch')
       => /\ << expiration_times, trailer_expirations_json >>'
               # << expiration_times, trailer_expirations_json >>
             => \E i \in Movers : /\ tasks[i].st = "direct"
                                  /\ tasks[i].look = "found"
                                  /\ tasks'[i].st = "Persisted"
          /\ << ignored_titles, ignored_titles_json >>'
               # << ignored_titles, ignored_titles_json >>
             => \E i \in Movers : tasks'[i].st = "MarkedIgnored"
          /\ \A i \in Movers :
               tasks'[i].st \in {"IgnoredSkip", "ValidCached"}
               => UNCHANGED << cachevars, fsvars >>]_vars

\* C28 witness: in one batch a worker has ended in Persisted with its expiry
\* in the cache and in the file, and another in MarkedIgnored with its title
\* in the ignore list.
C28_Witness ==
    /\ InBatch
    /\ \E i \in DOMAIN tasks :
         /\ tasks[i].st = "Persisted"
         /\ IsSome(expiration_times[tasks[i].root])
         /\ trailer_expirations_json = expiration_times
    /\ \E i \in DOMAIN tasks :
         /\ tasks[i].st = "MarkedIgnored"
         /\ IsSome(ignored_titles[tasks[i].imdb_id])

\* a cycle starts: a one-shot scan, a run of the scheduler's job, or an
\* iteration of the monitor's loop
CycleStarts == cycles' = cycles + 1

\* C29: at the start of every cycle over valid scan roots both caches are
\* what the files hold (no read or write having failed), so that a worker
\* whose title has been cleared from the ignore file from outside is not
\* skipped as ignored but goes to the resolver.
C29_ReloadedPerCycle ==
    [][/\ (/\ CycleStarts
           /\ paths_valid(FS, scan_paths)
           /\ faults'.read = 0 /\ faults'.write = 0)
          => /\ ignored_titles' = ignored_titles_json
             /\ expiration_times' = trailer_expirations_json
       /\ \A i \in DOMAIN tasks :
            (/\ Starts(i)
             /\ faults.edits > 0 /\ faults.read = 0 /\ faults.write = 0
             /\ ~IsSome(ignored_titles_json[tasks[i].imdb_id]))
            => tasks'[i].st # "IgnoredSkip"]_vars

\* the URL last written to the descriptor of directory d carries no expiry
\* (no Expires parameter, or one that is not a number)
NoExpiryResolved(d) ==
    /\ IsSome(strm[d])
    /\ get_expiration_time(Val(strm[d])) = None

\* C30: in descriptor mode, when the URL last resolved for a folder carried
\* no expiry, the folder's worker in a later cycle calls the resolver again
\* and does not end in ValidCached, whatever the expiry cache holds for the
\* folder (its title not being ignored).
C30_NoExpiryRetried ==
    [][\A i \in DOMAIN tasks :
         (/\ Starts(i)
          /\ ~batch_download
          /\ NoExpiryResolved(tasks[i].root)
          /\ \A j \in DOMAIN tasks : tasks[j].st \notin Resolving
          /\ ~IsSome(ignored_titles[tasks[i].imdb_id]))
         => tasks'[i].st = "lookup"]_vars

\* the candidates of a one-shot scan are in the batch
ScanEmitted == pc \in {"scan_batch", "sched_batch", "boot_batch"}

\* C31: in directory-pattern mode every candidate of a one-shot scan is a
\* directory whose own name (its final path segment) ends with the marker of
\* the candidate's id, and every folder of the monitor's folder set is a
\* directory whose own name ends with a marker; a directory that has a marker
\* only further up its path is neither.
C31_PatternGuard ==
    ~use_nfo
    => /\ ScanEmitted
          => \A i \in DOMAIN tasks :
               SegMarker[tasks[i].root] = Some(tasks[i].imdb_id)
       /\ \A n \in last_known_folders \cup new_folders.current :
            ~n.bd /\ IsSome(SegMarker[n.dir])

\* C31 witness: a scan in directory-pattern mode has walked a season folder,
\* whose path has the marker of its series folder only, and has emitted the
\* series folder but not the season folder.
C31_Witness ==
    /\ ~use_nfo
    /\ pc = "scan_batch"
    /\ exists[3]
    /\ IsSome(SearchMarker(Node(3)))
    /\ \E i \in DOMAIN tasks : tasks[i].root = 2
    /\ \A i \in DOMAIN tasks : tasks[i].root # 3

\* the directories under a scan root
UnderRoots ==
    {d \in Dirs : \E k \in DOMAIN scan_paths : InTree(d, scan_paths[k])}

\* C32 (as claimed): a one-shot scan in directory-pattern mode without limit
\* emits every existing directory under a scan root whose own name ends with
\* a marker and which holds at most one video file, with the id of that
\* marker, also when a folder further up its path has another marker.
C32_PatternCompleteness ==
    [][(/\ pc = "idle" /\ cycles' = cycles + 1
        /\ ~use_nfo /\ limit = 0
        /\ paths_valid(FS, scan_paths))
       => \A d \in UnderRoots :
            (/\ exists[d]
             /\ IsSome(SegMarker[d])
             /\ VideoCount(FS, Node(d)) <= 1)
            => \E k \in DOMAIN tasks' :
                 /\ tasks'[k].root = d
                 /\ tasks'[k].imdb_id = Val(SegMarker[d])]_vars

\* the title id with which the scan and the monitor make directory d a
\* candidate in the mode that is on
CandidateId(d) ==
    IF use_nfo THEN get_imdb_from_nfo(FS, Node(d)) ELSE PatternId(Node(d))

\* C33 (as claimed): every worker of the monitor's expiring-link sweep gets
\* the title id with which its folder was made a candidate when its expiry
\* entry was created, in both modes.
C33_SweepKeepsId ==
    [][(pc = "mon_sweep" /\ pc' = "sweep_batch")
       => \A k \in DOMAIN tasks' :
            Some(tasks'[k].imdb_id) = CandidateId(tasks'[k].root)]_vars

\* download_trailer returns False to worker i
DownloadFails(i) ==
    /\ i \in DOMAIN tasks'
    /\ tasks[i].st \in {"download", "writing", "ytdl"}
    /\ tasks'[i].st = "DownloadFailed"

\* C34 (as claimed): whenever download_trailer returns failure to a worker,
\* on either branch, no trailer.mp4 is in the worker's folder when it
\* returns, so that a later download-mode worker of the folder does not skip
\* it.
C34_FailedDownloadLeavesNothing ==
    [][\A i \in DOMAIN tasks :
         DownloadFails(i) => ~trailer'[tasks[i].root]]_vars

\* C35 (as claimed): when the scan or the monitor runs in download mode, no
\* step writes a link descriptor and no worker's step changes the expiry
\* cache, in memory or on disk, in any phase, the monitor's bootstrap scan
\* included.
C35_DownloadWritesNoDescriptor ==
    [][download
       => /\ strm' = strm
          /\ Movers # {}
             => UNCHANGED << expiration_times, trailer_expirations_json >>]_vars

\* C36 (as claimed): when a monitor iteration has compared the folders (it
\* goes on to the sweep), the known set is the qualifying set that
\* watch_for_new_media computed in that iteration, whether or not the
\* iteration found a new folder.
C36_KnownSetTracksCurrent ==
    [][/\ (pc = "mon_loop" /\ pc' = "mon_sweep")
          => last_known_folders'
               = watch_for_new_media(FS, scan_paths, use_nfo).folders
       /\ (pc = "mon_new" /\ pc' = "mon_sweep")
          => last_known_folders' = new_folders.current]_vars

====
